---- MODULE Spec2Model ----
(***************************************************************************)
(* A model of the regex-demo bytecode interpreter.                         *)
(*                                                                         *)
(*  - src/src/interpreter.rs: the bitset ThreadList, its iterator, and the *)
(*    Executor (execution_step / _execution_step / run / search).          *)
(*  - src/src/interpreter/thread.rs: the capture-carrying ThreadList and   *)
(*    ThreadGroup.                                                         *)
(*                                                                         *)
(* A u64 word of the bitset is modelled as the set of its set bit          *)
(* positions (a subset of 0..WordBits-1); Rust's 0-based Vec index k is    *)
(* the 1-based sequence index k+1.  A Rust panic (index out of bounds) is  *)
(* an explicit outcome of the operator that would raise it.                *)
(***************************************************************************)
EXTENDS Integers, Sequences, FiniteSets, TLC

\* Width of one word of ThreadList.threads (Vec<u64>).
WordBits == 64

\* Bounds of the model.
MaxProgLen == 2
MaxInputLen == 2
NumChars == 2
\* The list harnesses: capacities 1..MaxCapacity, at most MaxAdds add_thread
\* calls between two clears, bags of at most MaxBag capture vectors, at most
\* MaxGroups thread groups in the caller's hands, input indices 0..MaxIndex,
\* at most MaxCalls calls on the capture-carrying list and its groups.
MaxCapacity == 1
MaxAdds == 2
MaxBag == 2
MaxGroups == 2
MaxIndex == 1
MaxCalls == 6
\* Searches made one after the other, thread-list states remembered of each,
\* and the longest of the enumerated programs searched repeatedly.
MaxSearches == 3
MaxTrace == 40
MaxRepeatLen == 1
\* Program files: lines of a text file, 32-bit words of a binary file, and the
\* largest destination written in them.
MaxLines == 2
MaxWords == 2
MaxDest == 2
\* Turns of the loop of one step of the capturing search.
MaxSweeps == 4

\* Option<char>: None, or one of the characters 1..NumChars.
None == 0
Chars == 1..NumChars

(***************************************************************************)
(* regex.rs: enum Instruction                                              *)
(***************************************************************************)
Instr(op, lo, hi, inverted, d1, d2) ==
    [op |-> op, lo |-> lo, hi |-> hi, inverted |-> inverted, pc1 |-> d1, pc2 |-> d2]

Match == Instr("Match", 0, 0, FALSE, 0, 0)
Die == Instr("Die", 0, 0, FALSE, 0, 0)
Consume == Instr("Consume", 0, 0, FALSE, 0, 0)
Char(c, inverted) == Instr("Char", c, c, inverted, 0, 0)
CharOption(c, pc) == Instr("CharOption", c, c, FALSE, pc, 0)
Range(c_min, c_max, inverted) == Instr("Range", c_min, c_max, inverted, 0, 0)
RangeOption(c_min, c_max, pc) == Instr("RangeOption", c_min, c_max, FALSE, pc, 0)
Jump(pc) == Instr("Jump", 0, 0, FALSE, pc, 0)
Split(pc1, pc2) == Instr("Split", 0, 0, FALSE, pc1, pc2)
\* regex/bin.rs builds three more variants.
Compare(char_min, char_max, inverted) == Instr("Compare", char_min, char_max, inverted, 0, 0)
Branch(char_min, char_max, dest) == Instr("Branch", char_min, char_max, FALSE, dest, 0)
InstructionSave(index) == Instr("Save", index, index, FALSE, 0, 0)

\* The (min, max) pairs parse_range and parse_optional_range accept.
OrderedPairs == {r \in Chars \X Chars : r[1] <= r[2]}

\* Every instruction whose destinations lie in 0..n-1 (parse_range rejects
\* max_char < min_char, so ranges are ordered).
Instructions(n) ==
    {Match, Die, Consume}
    \cup {Char(c, i) : c \in Chars, i \in BOOLEAN}
    \cup {CharOption(c, d) : c \in Chars, d \in 0..(n - 1)}
    \cup {Range(r[1], r[2], i) : r \in OrderedPairs, i \in BOOLEAN}
    \cup {RangeOption(r[1], r[2], d) : r \in OrderedPairs, d \in 0..(n - 1)}
    \cup {Jump(d) : d \in 0..(n - 1)}
    \cup {Split(d1, d2) : d1 \in 0..(n - 1), d2 \in 0..(n - 1)}

\* The destinations an instruction names.
Destinations(inst) ==
    CASE inst.op \in {"CharOption", "RangeOption", "Jump", "Branch"} -> {inst.pc1}
      [] inst.op = "Split" -> {inst.pc1, inst.pc2}
      [] OTHER -> {}

\* A valid program: non-empty, all destinations in range, last instruction Match
\* (parse_regex checks the final `match`).
ValidProgram(p) ==
    /\ Len(p) >= 1
    /\ p[Len(p)] = Match
    /\ \A k \in 1..Len(p) : \A d \in Destinations(p[k]) : d < Len(p)

(***************************************************************************)
(* interpreter.rs: ThreadList (bitset)                                     *)
(***************************************************************************)
DivCeil(a, b) == (a + b - 1) \div b

\* A list created with every bit of every word set.
ThreadListNewFull(capacity) ==
    [size |-> capacity,
     threads |-> [k \in 1..DivCeil(capacity, WordBits) |-> 0..(WordBits - 1)]]

\* ThreadList::new
ThreadListNew(capacity) ==
    [size |-> capacity, threads |-> [k \in 1..DivCeil(capacity, WordBits) |-> {}]]

\* add_thread: `panic` is the index-out-of-bounds of self.threads[threads_index].
AddThread(tl, pc) ==
    IF pc > tl.size
    THEN [panic |-> FALSE, list |-> tl]
    ELSE LET threads_index == pc \div WordBits
             thread_bit_index == pc - (threads_index * WordBits)
         IN  IF threads_index >= Len(tl.threads)
             THEN [panic |-> TRUE, list |-> tl]
             ELSE [panic |-> FALSE,
                   list |-> [tl EXCEPT !.threads[threads_index + 1] = @ \cup {thread_bit_index}]]

Clear(tl) == [tl EXCEPT !.threads = [k \in 1..Len(tl.threads) |-> {}]]

IsEmpty(tl) == \A k \in 1..Len(tl.threads) : tl.threads[k] = {}

\* elem >> n on a word held as its set of set bits.
ShiftRight(elem, n) == {b - n : b \in {x \in elem : x >= n}}

\* u64::trailing_zeros of a non-zero word.
TrailingZeros(elem) == CHOOSE b \in elem : \A x \in elem : b <= x

\* ThreadListIter::next: the while loop from a given threads_index.
RECURSIVE IterScan(_, _, _)
IterScan(tl, index, threads_index) ==
    IF ~(index <= tl.size)
    THEN [kind |-> "none", pc |-> 0, index |-> index]
    ELSE IF threads_index >= Len(tl.threads)
    THEN [kind |-> "panic", pc |-> 0, index |-> index]
    ELSE LET thread_bit_index == index - (threads_index * WordBits)
             elem == tl.threads[threads_index + 1]
             remainder == ShiftRight(elem, thread_bit_index)
         IN  IF remainder = {}
             THEN IterScan(tl, (threads_index + 1) * WordBits, threads_index + 1)
             ELSE LET next_bit_index == TrailingZeros(remainder) + thread_bit_index
                      next_index == next_bit_index + (threads_index * WordBits)
                  IN  [kind |-> "some", pc |-> next_index, index |-> next_index + 1]

IterNext(tl, index) == IterScan(tl, index, index \div WordBits)

\* The PCs whose bit is set.
Members(tl) ==
    {pc \in 0..(Len(tl.threads) * WordBits - 1) :
        (pc % WordBits) \in tl.threads[(pc \div WordBits) + 1]}

(***************************************************************************)
(* interpreter.rs: Executor::_execution_step, the match on                 *)
(* (program[thread.pc], input_char) for one thread.  `temp` and `next` are *)
(* the arguments of step_execution and consume_and_step, in call order.    *)
(***************************************************************************)
Effect(matched, temp, next) == [matched |-> matched, temp |-> temp, next |-> next]

Dispatch(inst, pc, input_char) ==
    CASE inst.op = "Match" -> Effect(TRUE, <<>>, <<>>)
      [] inst.op = "Die" -> Effect(FALSE, <<>>, <<>>)
      [] inst.op = "Consume" ->
            IF input_char # None THEN Effect(FALSE, <<>>, <<pc + 1>>)
            ELSE Effect(FALSE, <<>>, <<>>)
      [] inst.op = "Char" ->
            IF input_char = None THEN Effect(FALSE, <<>>, <<>>)
            ELSE IF ~inst.inverted
            THEN (IF input_char = inst.lo THEN Effect(FALSE, <<>>, <<pc + 1>>)
                  ELSE Effect(FALSE, <<>>, <<>>))
            ELSE (IF input_char # inst.lo THEN Effect(FALSE, <<pc + 1>>, <<>>)
                  ELSE Effect(FALSE, <<>>, <<>>))
      [] inst.op = "CharOption" ->
            IF input_char = None THEN Effect(FALSE, <<>>, <<>>)
            ELSE IF input_char = inst.lo THEN Effect(FALSE, <<>>, <<inst.pc1>>)
            ELSE Effect(FALSE, <<pc + 1>>, <<>>)
      [] inst.op = "Range" ->
            IF input_char = None THEN Effect(FALSE, <<>>, <<>>)
            ELSE IF ~inst.inverted
            THEN (IF inst.lo <= input_char /\ input_char <= inst.hi
                  THEN Effect(FALSE, <<>>, <<pc + 1>>)
                  ELSE Effect(FALSE, <<>>, <<>>))
            ELSE (IF input_char < inst.lo \/ inst.hi < input_char
                  THEN Effect(FALSE, <<pc + 1>>, <<>>)
                  ELSE Effect(FALSE, <<>>, <<>>))
      [] inst.op = "RangeOption" ->
            IF input_char = None THEN Effect(FALSE, <<>>, <<>>)
            ELSE IF inst.lo <= input_char /\ input_char <= inst.hi
            THEN Effect(FALSE, <<>>, <<inst.pc1>>)
            ELSE Effect(FALSE, <<pc + 1>>, <<>>)
      [] inst.op = "Jump" -> Effect(FALSE, <<inst.pc1>>, <<>>)
      [] inst.op = "Split" -> Effect(FALSE, <<inst.pc1, inst.pc2>>, <<>>)

\* A run of add_thread calls on one list; a panic aborts the rest.
RECURSIVE AddAll(_, _)
AddAll(tl, pcs) ==
    IF pcs = <<>> THEN [panic |-> FALSE, list |-> tl]
    ELSE LET r == AddThread(tl, Head(pcs))
         IN  IF r.panic THEN r ELSE AddAll(r.list, Tail(pcs))

(***************************************************************************)
(* The programs and inputs searched.                                       *)
(***************************************************************************)
\* Every valid program of at most m instructions.
ProgramsUpTo(m) ==
    UNION {{p \in [1..n -> Instructions(n)] : p[n] = Match} : n \in 1..m}

SmallPrograms == ProgramsUpTo(MaxProgLen)

\* a* : split, char, jump back, match.
AStar == <<Split(1, 3), Char(1, FALSE), Jump(0), Match>>
\* a? : the empty match is reached before the one-character match.
AOpt == <<Split(1, 2), Char(1, FALSE), Match>>
\* ab
AB == <<Char(1, FALSE), Range(2, 2, FALSE), Match>>
\* consume `a` and match, else fall into a jump-to-self.
OptOrSpin == <<CharOption(1, 2), Jump(1), Match>>
\* not-a, then a, through the non-consuming inverted matchers.
InvThenA == <<Range(1, 1, TRUE), Char(1, FALSE), Match>>

\* p stretched to n instructions: Die fills the gap before the final Match,
\* and the destinations that named p's final Match still name it.
Padded(p, n) ==
    LET move(d) == IF d = Len(p) - 1 THEN n - 1 ELSE d
        fix(i) == [i EXCEPT !.pc1 = IF i.op \in {"CharOption", "RangeOption", "Jump", "Split"}
                                     THEN move(@) ELSE @,
                            !.pc2 = IF i.op = "Split" THEN move(@) ELSE @]
    IN  [k \in 1..n |-> IF k < Len(p) THEN fix(p[k])
                        ELSE IF k < n THEN Die ELSE Match]

\* PC 2 is reached from PC 0 directly and through the jump at PC 1.
TwoPaths == <<Split(1, 2), Jump(2), Char(1, FALSE), Match>>

Catalogue == {AStar, AOpt, AB, OptOrSpin, InvThenA, TwoPaths}

\* Programs as long as one bitset word, one shorter and one longer.
WordPrograms ==
    {Padded(p, n) : p \in {<<Match>>, <<Consume, Match>>, AOpt},
                    n \in {WordBits - 1, WordBits, WordBits + 1}}

Programs == SmallPrograms \cup Catalogue \cup WordPrograms

Inputs == UNION {[1..n -> Chars] : n \in 0..MaxInputLen}

(***************************************************************************)
(* interpreter.rs: Executor, run, search                                   *)
(***************************************************************************)
VARIABLES
    program,          \* Executor.program
    input,            \* the &str searched, as a sequence of chars
    phase,            \* where `search` stands: run / while / for / done / panic
    char_index,       \* how many chars `for input_char in input.chars()` has taken
    input_char,       \* execution_step's argument
    current_threads,  \* Executor.current_threads
    temp_threads,     \* execution_step's local
    next_threads,     \* execution_step's local
    iter_index,       \* ThreadListIter.index of the running `for thread in ...`
    result,           \* pending / match / nomatch / panic
    searches,         \* how many calls of search the caller has made
    others,           \* how many of them were not the first call's (prog, input)
    first,            \* the first call: its arguments, thread-list states, result
    trace,            \* the thread-list states of the running call, oldest first
    sweeps,           \* turns of execution_step's while loop taken in this step
    visited,          \* the PCs whose instruction was dispatched in this step
    matches           \* the match records the steps of a capturing search returned

execVars == <<program, input, phase, char_index, input_char, current_threads,
              temp_threads, next_threads, iter_index, result,
              searches, others, first, trace, sweeps, visited, matches>>

\* A bitset ThreadList (interpreter.rs) driven call by call.
VARIABLES
    bits,             \* the ThreadList
    bits_added,       \* the PCs given to add_thread since the last clear
    bits_iter,        \* ThreadListIter.index of the live iterator, -1 without one
    bits_out,         \* the PCs the live iterator has yielded, in order
    bits_status       \* ok / ended (next returned None) / panic

bitsVars == <<bits, bits_added, bits_iter, bits_out, bits_status>>

\* A capture-carrying ThreadList (interpreter/thread.rs) driven call by call.
VARIABLES
    threads,          \* ThreadList.threads
    groups,           \* the ThreadGroups the caller holds
    stores,           \* for each of them, the allocation its capture list lives in
    clone_of,         \* for each of them, the allocation it was cloned from, or -1
    drain,            \* position of the live ThreadListIterMut, -1 without one
    drained,          \* the last drain ran to its end and nothing was added since
    calls,            \* how many calls the caller has made
    cap_status        \* ok / panic

capVars == <<threads, groups, stores, clone_of, drain, drained, calls, cap_status>>

\* A program loader (regex.rs parse_regex, regex/bin.rs parse_bin) at work.
VARIABLES
    loader,           \* which loader runs: regex / bin
    file,             \* the file: lines (regex) or whole 4-byte chunks (bin)
    file_tail,        \* bytes after the last whole chunk (bin)
    line_number,      \* how many lines or chunks the loop has taken
    loaded,           \* the Vec<Instruction> being built
    load_status       \* loading / ok / err / panic

loadVars == <<loader, file, file_tail, line_number, loaded, load_status>>

vars == <<execVars, bitsVars, capVars, loadVars>>

\* A local that is not alive.
NoList == [size |-> 0, threads |-> <<>>]

\* The first call of search has not returned yet.
NoSearch == [program |-> <<>>, input |-> <<>>, trace |-> <<>>, result |-> "pending"]

\* The harnesses at rest.
BitsOff ==
    /\ bits = NoList
    /\ bits_added = {}
    /\ bits_iter = -1
    /\ bits_out = <<>>
    /\ bits_status = "off"

CapOff ==
    /\ threads = <<>>
    /\ groups = <<>>
    /\ stores = <<>>
    /\ clone_of = <<>>
    /\ drain = -1
    /\ drained = FALSE
    /\ calls = 0
    /\ cap_status = "off"

LoadOff ==
    /\ loader = "off"
    /\ file = <<>>
    /\ file_tail = 0
    /\ line_number = 0
    /\ loaded = <<>>
    /\ load_status = "off"

ExecOff ==
    /\ program = <<>>
    /\ input = <<>>
    /\ current_threads = NoList
    /\ temp_threads = NoList
    /\ next_threads = NoList
    /\ phase = "off"
    /\ char_index = 0
    /\ input_char = None
    /\ iter_index = 0
    /\ result = "off"
    /\ searches = 0
    /\ others = 0
    /\ first = NoSearch
    /\ trace = <<>>
    /\ sweeps = 0
    /\ visited = {}
    /\ matches = <<>>

\* search: Executor::new(prog), then run(input).  A caller that will compare
\* calls remembers the thread-list states from the start.
SearchStart(remember, small) ==
    /\ BitsOff
    /\ CapOff
    /\ LoadOff
    /\ \/ program \in small \cup Catalogue
       \/ program \in WordPrograms
    /\ input \in Inputs
    /\ current_threads = ThreadListNew(Len(program))
    /\ temp_threads = NoList
    /\ next_threads = NoList
    /\ phase = "run"
    /\ char_index = 0
    /\ input_char = None
    /\ iter_index = 0
    /\ result = "pending"
    /\ searches = 1
    /\ others = 0
    /\ first = NoSearch
    /\ trace = IF remember THEN <<<<current_threads, temp_threads, next_threads>>>> ELSE <<>>
    /\ sweeps = 0
    /\ visited = {}
    /\ matches = <<>>

Init == SearchStart(FALSE, SmallPrograms)

\* execution_step seeds PC 0 when it is given a character.
SeedsThread(c) == c # None

\* One more turn of the while loop; counting stops one past the limit.
Counted(n, limit) == IF n <= limit THEN n + 1 ELSE n

\* The lists a step of the running call leaves behind.
Traced ==
    /\ trace' = IF trace # <<>> /\ Len(trace) < MaxTrace
                THEN Append(trace, <<current_threads', temp_threads', next_threads'>>)
                ELSE trace
    /\ UNCHANGED <<searches, others, first>>

Panicked ==
    /\ phase' = "panic"
    /\ result' = "panic"
    /\ UNCHANGED <<current_threads, temp_threads, next_threads, iter_index>>

\* run takes the next char (or None after the last) and calls execution_step,
\* which seeds PC 0 and creates temp_threads and next_threads.
StepBegin ==
    /\ phase = "run"
    /\ LET c == IF char_index < Len(input) THEN input[char_index + 1] ELSE None
           seeded == IF SeedsThread(c) THEN AddThread(current_threads, 0)
                     ELSE [panic |-> FALSE, list |-> current_threads]
       IN  /\ input_char' = c
           /\ char_index' = IF c # None THEN char_index + 1 ELSE char_index
           /\ IF seeded.panic
              THEN Panicked
              ELSE /\ current_threads' = seeded.list
                   /\ temp_threads' = ThreadListNew(Len(program))
                   /\ next_threads' = ThreadListNew(Len(program))
                   /\ phase' = "while"
                   /\ UNCHANGED <<iter_index, result>>
    /\ UNCHANGED <<program, input, bitsVars, capVars, loadVars>>
    /\ Traced
    /\ UNCHANGED matches
    /\ sweeps' = 0
    /\ visited' = {}

\* while !self.current_threads.is_empty(): enter _execution_step.
LoopEnter ==
    /\ phase = "while"
    /\ ~IsEmpty(current_threads)
    /\ iter_index' = 0
    /\ phase' = "for"
    /\ UNCHANGED <<program, input, char_index, input_char, current_threads,
                   temp_threads, next_threads, result, bitsVars, capVars, loadVars>>
    /\ Traced
    /\ UNCHANGED matches
    /\ sweeps' = Counted(sweeps, Len(program))
    /\ UNCHANGED visited

\* The while loop ends: clear current, swap next into it, return false; run
\* goes on to the next char, or returns false after the final step.
StepEnd ==
    /\ phase = "while"
    /\ IsEmpty(current_threads)
    /\ current_threads' = next_threads
    /\ temp_threads' = NoList
    /\ next_threads' = NoList
    /\ IF input_char = None
       THEN phase' = "done" /\ result' = "nomatch"
       ELSE phase' = "run" /\ UNCHANGED result
    /\ UNCHANGED <<program, input, char_index, input_char, iter_index,
                   bitsVars, capVars, loadVars>>
    /\ Traced
    /\ UNCHANGED matches
    /\ UNCHANGED sweeps
    /\ UNCHANGED visited

\* What `for thread in self.current_threads.iter()` yields next.
Dispatched == IterNext(current_threads, iter_index)

\* One turn of `for thread in self.current_threads.iter()` that yields a thread.
ThreadDispatch ==
    /\ phase = "for"
    /\ LET it == Dispatched
       IN  /\ it.kind = "some"
           /\ IF it.pc >= Len(program)
              THEN Panicked
              ELSE LET eff == Dispatch(program[it.pc + 1], it.pc, input_char)
                       t == AddAll(temp_threads, eff.temp)
                       n == AddAll(next_threads, eff.next)
                   IN  IF eff.matched
                       THEN /\ phase' = "done"
                            /\ result' = "match"
                            /\ temp_threads' = NoList
                            /\ next_threads' = NoList
                            /\ UNCHANGED <<current_threads, iter_index>>
                       ELSE IF t.panic \/ n.panic
                       THEN Panicked
                       ELSE /\ temp_threads' = t.list
                            /\ next_threads' = n.list
                            /\ iter_index' = it.index
                            /\ UNCHANGED <<current_threads, phase, result>>
    /\ UNCHANGED <<program, input, char_index, input_char, bitsVars, capVars, loadVars>>
    /\ Traced
    /\ UNCHANGED matches
    /\ UNCHANGED sweeps
    /\ visited' = visited \cup {Dispatched.pc}

\* The iterator is exhausted: _execution_step returns false, current is cleared
\* and swapped with temp.
SweepEnd ==
    /\ phase = "for"
    /\ IterNext(current_threads, iter_index).kind = "none"
    /\ current_threads' = temp_threads
    /\ temp_threads' = Clear(current_threads)
    /\ phase' = "while"
    /\ UNCHANGED <<program, input, char_index, input_char, next_threads,
                   iter_index, result, bitsVars, capVars, loadVars>>
    /\ Traced
    /\ UNCHANGED matches
    /\ UNCHANGED sweeps
    /\ UNCHANGED visited

\* ThreadListIter::next indexes past the end of thread_list.threads.
IterPanic ==
    /\ phase = "for"
    /\ IterNext(current_threads, iter_index).kind = "panic"
    /\ Panicked
    /\ UNCHANGED <<program, input, char_index, input_char, bitsVars, capVars, loadVars>>
    /\ Traced
    /\ UNCHANGED matches
    /\ UNCHANGED sweeps
    /\ UNCHANGED visited

Next ==
    \/ StepBegin
    \/ LoopEnter
    \/ StepEnd
    \/ ThreadDispatch
    \/ SweepEnd
    \/ IterPanic

Spec == Init /\ [][Next]_vars

\* search is one synchronous call: it keeps running until it returns or panics.
FairSpec == Spec /\ WF_vars(Next)

(***************************************************************************)
(* A caller that calls search again after it returned: on the first call's *)
(* arguments, or once on other arguments in between.                       *)
(***************************************************************************)
OtherSearches == {<<AOpt, <<1>>>>, <<AB, <<1, 2>>>>, <<OptOrSpin, <<1>>>>}

\* What the caller knows of the first call once it has returned.
Returned ==
    IF searches = 1
    THEN [program |-> program, input |-> input, trace |-> trace, result |-> result]
    ELSE first

\* What the caller may search next: the first call's arguments again, or,
\* once, other ones.
Again ==
    {<<Returned.program, Returned.input>>}
    \cup (IF others = 0 THEN OtherSearches ELSE {})

\* The caller's bookkeeping of a call on (p, s), and the frame of run(s).
Calling(p, s) ==
    /\ phase = "done"
    /\ searches < MaxSearches
    /\ searches' = searches + 1
    /\ first' = Returned
    /\ others' = IF <<p, s>> = <<Returned.program, Returned.input>> THEN others ELSE 1
    /\ program' = p
    /\ input' = s
    /\ temp_threads' = NoList
    /\ next_threads' = NoList
    /\ phase' = "run"
    /\ char_index' = 0
    /\ input_char' = None
    /\ iter_index' = 0
    /\ result' = "pending"
    /\ trace' = <<<<current_threads', temp_threads', next_threads'>>>>
    /\ sweeps' = 0
    /\ visited' = {}
    /\ UNCHANGED <<matches, bitsVars, capVars, loadVars>>

\* A caller that kept the Executor of the call before.
SearchWithOldExecutor ==
    \E a \in Again :
        /\ current_threads' = IF Len(a[1]) = current_threads.size THEN current_threads
                              ELSE ThreadListNew(Len(a[1]))
        /\ Calling(a[1], a[2])

\* search: `let mut executor = Executor::new(prog); executor.run(input)`.
SearchAgain ==
    \E a \in Again :
        /\ current_threads' = ThreadListNew(Len(a[1]))
        /\ Calling(a[1], a[2])

RepeatNext == Next \/ SearchAgain

RepeatInit == SearchStart(TRUE, ProgramsUpTo(MaxRepeatLen))

RepeatSpec == RepeatInit /\ [][RepeatNext]_vars

(***************************************************************************)
(* search as a function of (program, input): the same loops, run to their  *)
(* end.  The while loop of execution_step starts every turn with temp      *)
(* cleared, so its state is (current, next); a turn that brings back a     *)
(* state already seen repeats for ever, and the outcome is "diverge".      *)
(***************************************************************************)
\* for thread in self.current_threads.iter() { match ... }
RECURSIVE Sweep(_, _, _, _, _, _)
Sweep(p, current, index, temp, next, c) ==
    LET it == IterNext(current, index)
    IN  IF it.kind = "none" THEN [kind |-> "ok", temp |-> temp, next |-> next]
        ELSE IF it.kind = "panic" \/ it.pc >= Len(p)
        THEN [kind |-> "panic", temp |-> temp, next |-> next]
        ELSE LET eff == Dispatch(p[it.pc + 1], it.pc, c)
                 t == AddAll(temp, eff.temp)
                 n == AddAll(next, eff.next)
             IN  IF eff.matched THEN [kind |-> "match", temp |-> temp, next |-> next]
                 ELSE IF t.panic \/ n.panic
                 THEN [kind |-> "panic", temp |-> temp, next |-> next]
                 ELSE Sweep(p, current, it.index, t.list, n.list, c)

\* while !self.current_threads.is_empty() { ... }, then the final swap.
RECURSIVE StepLoop(_, _, _, _, _)
StepLoop(p, current, next, c, seen) ==
    IF IsEmpty(current) THEN [kind |-> "ok", current |-> next]
    ELSE IF <<current, next>> \in seen THEN [kind |-> "diverge", current |-> current]
    ELSE LET sw == Sweep(p, current, 0, Clear(current), next, c)
         IN  IF sw.kind # "ok" THEN [kind |-> sw.kind, current |-> current]
             ELSE StepLoop(p, sw.temp, sw.next, c, seen \cup {<<current, next>>})

\* execution_step
ExecutionStep(p, current, c) ==
    LET seeded == IF SeedsThread(c) THEN AddThread(current, 0)
                  ELSE [panic |-> FALSE, list |-> current]
    IN  IF seeded.panic THEN [kind |-> "panic", current |-> current]
        ELSE StepLoop(p, seeded.list, ThreadListNew(Len(p)), c, {})

\* run, from the k-th char on
RECURSIVE RunFrom(_, _, _, _)
RunFrom(p, s, k, current) ==
    LET c == IF k < Len(s) THEN s[k + 1] ELSE None
        st == ExecutionStep(p, current, c)
    IN  IF st.kind # "ok" THEN st.kind
        ELSE IF c = None THEN "nomatch"
        ELSE RunFrom(p, s, k + 1, st.current)

\* search: "match", "nomatch", "panic" or "diverge"
Search(p, s) == RunFrom(p, s, 0, ThreadListNew(Len(p)))

\* The stepwise run and the function agree.
RunAgreesWithSearch ==
    /\ phase = "done" => result = Search(program, input)
    /\ phase = "panic" => Search(program, input) = "panic"
    /\ Search(program, input) = "diverge" => phase \notin {"done", "panic"}

(***************************************************************************)
(* What a program matches: the paths of single threads through Dispatch.   *)
(***************************************************************************)
SeqSet(q) == {q[k] : k \in DOMAIN q}

\* The PCs a thread at one of S reaches at the same input position (symbol c).
RECURSIVE Closure(_, _, _)
Closure(p, S, c) ==
    LET T == S \cup {d \in 0..(Len(p) - 1) :
                        \E pc \in S : d \in SeqSet(Dispatch(p[pc + 1], pc, c).temp)}
    IN  IF T = S THEN S ELSE Closure(p, T, c)

\* The PCs it reaches at the following position, having consumed c.
Advance(p, S, c) ==
    {d \in 0..(Len(p) - 1) :
        \E pc \in Closure(p, S, c) : d \in SeqSet(Dispatch(p[pc + 1], pc, c).next)}

Symbol(s, j) == IF j < Len(s) THEN s[j + 1] ELSE None

\* The PCs at position j of a thread started at PC 0 at position i <= j.
RECURSIVE At(_, _, _, _)
At(p, s, i, j) == IF j = i THEN {0} ELSE Advance(p, At(p, s, i, j - 1), Symbol(s, j - 1))

\* p matches the substring s[i..j): a Match instruction is reached at position j.
MatchesSpan(p, s, i, j) ==
    \E pc \in Closure(p, At(p, s, i, j), Symbol(s, j)) : p[pc + 1] = Match

\* Some substring of s starting at i is matched by p.
MatchesFrom(p, s, i) == \E j \in i..Len(s) : MatchesSpan(p, s, i, j)

\* The match candidates (start, end) of p on s.
Candidates(p, s) ==
    {se \in (0..Len(s)) \X (0..Len(s)) : se[1] <= se[2] /\ MatchesSpan(p, s, se[1], se[2])}

\* Match is reachable from PC 0 through Jump and Split alone.
AcceptsEmpty(p) == MatchesSpan(p, <<>>, 0, 0)

\* The instructions that move a thread without consuming input (Jump, Split
\* and the two-way branches) and the PCs they lead to.
EpsilonSuccessors(p, pc) ==
    LET inst == p[pc + 1]
    IN  CASE inst.op \in {"Jump", "Split"} -> Destinations(inst)
          [] inst.op \in {"CharOption", "RangeOption"} -> {inst.pc1, pc + 1}
          [] OTHER -> {}

RECURSIVE EpsilonReach(_, _)
EpsilonReach(p, S) ==
    LET T == S \cup {d \in 0..(Len(p) - 1) : \E pc \in S : d \in EpsilonSuccessors(p, pc)}
    IN  IF T = S THEN S ELSE EpsilonReach(p, T)

\* Every path from PC 0 to a Match passes through a consuming instruction
\* (Consume, Char, Range).
EveryPathConsumes(p) == \A pc \in EpsilonReach(p, {0}) : p[pc + 1] # Match

\* The position of the step in which search returned.
StepPosition == IF input_char = None THEN Len(input) ELSE char_index - 1

(***************************************************************************)
(* interpreter.rs: the bitset ThreadList called directly, with any PC from *)
(* 0 to one past its capacity.  An iterator borrows the list, so add_thread *)
(* and clear wait until it is dropped.                                     *)
(***************************************************************************)
Capacities == (1..MaxCapacity) \cup {WordBits - 1, WordBits, WordBits + 1}

BitsInit ==
    /\ ExecOff
    /\ CapOff
    /\ LoadOff
    /\ \E capacity \in Capacities : bits = ThreadListNew(capacity)
    /\ bits_added = {}
    /\ bits_iter = -1
    /\ bits_out = <<>>
    /\ bits_status = "ok"

\* add_thread(pc)
BitsAdd ==
    /\ bits_status = "ok"
    /\ bits_iter = -1
    /\ Cardinality(bits_added) < MaxAdds
    /\ \E pc \in 0..(bits.size + 1) :
        LET r == AddThread(bits, pc)
        IN  IF r.panic
            THEN /\ bits_status' = "panic"
                 /\ UNCHANGED <<bits, bits_added>>
            ELSE /\ bits' = r.list
                 /\ bits_added' = bits_added \cup {pc}
                 /\ UNCHANGED bits_status
    /\ UNCHANGED <<bits_iter, bits_out, execVars, capVars, loadVars>>

\* clear()
BitsClear ==
    /\ bits_status = "ok"
    /\ bits_iter = -1
    /\ bits_added # {}
    /\ bits' = Clear(bits)
    /\ bits_added' = {}
    /\ UNCHANGED <<bits_iter, bits_out, bits_status, execVars, capVars, loadVars>>

\* iter()
BitsIter ==
    /\ bits_status = "ok"
    /\ bits_iter = -1
    /\ bits_iter' = 0
    /\ bits_out' = <<>>
    /\ UNCHANGED <<bits, bits_added, bits_status, execVars, capVars, loadVars>>

\* ThreadListIter::next()
BitsIterNext ==
    /\ bits_status = "ok"
    /\ bits_iter # -1
    /\ LET it == IterNext(bits, bits_iter)
       IN  /\ bits_iter' = it.index
           /\ bits_out' = IF it.kind = "some" THEN Append(bits_out, it.pc) ELSE bits_out
           /\ bits_status' = CASE it.kind = "some" -> "ok"
                               [] it.kind = "none" -> "ended"
                               [] it.kind = "panic" -> "panic"
    /\ UNCHANGED <<bits, bits_added, execVars, capVars, loadVars>>

\* The iterator is dropped after it ended.
BitsIterDrop ==
    /\ bits_status = "ended"
    /\ bits_iter' = -1
    /\ bits_out' = <<>>
    /\ bits_status' = "ok"
    /\ UNCHANGED <<bits, bits_added, execVars, capVars, loadVars>>

BitsNext ==
    \/ BitsAdd
    \/ BitsClear
    \/ BitsIter
    \/ BitsIterNext
    \/ BitsIterDrop

BitsSpec == BitsInit /\ [][BitsNext]_vars

(***************************************************************************)
(* regex.rs: parse_regex and the parse_* functions of one line.  A line is *)
(* its opcode and the space-separated words after it; a word is the char   *)
(* read_escaped_char reads from it and what parse::<usize> makes of it     *)
(* (-1: Err).                                                              *)
(***************************************************************************)
Word(c, n) == [char |-> c, num |-> n]
Line(opcode, args) == [opcode |-> opcode, args |-> args]

Parsed(inst) == [kind |-> "ok", inst |-> inst]
ParseErr == [kind |-> "err", inst |-> Die]
ParsePanic == [kind |-> "panic", inst |-> Die]

\* parse_match, parse_die, parse_wildcard
parse_nullary(args, inst) == IF args # <<>> THEN ParseErr ELSE Parsed(inst)

\* parse_char: read_escaped_char(args) splits at 1, a panic on the empty string.
parse_char(args, inverted) ==
    IF args = <<>> THEN ParsePanic ELSE Parsed(Char(args[1].char, inverted))

\* parse_optional_char: split_once(' ').unwrap() panics without a second word.
parse_optional_char(args) ==
    IF Len(args) < 2 THEN ParsePanic
    ELSE IF Len(args) > 2 \/ args[2].num < 0 THEN ParseErr
    ELSE Parsed(CharOption(args[1].char, args[2].num))

parse_range(args, inverted) ==
    IF Len(args) # 2 THEN ParseErr
    ELSE IF args[2].char < args[1].char THEN ParseErr
    ELSE Parsed(Range(args[1].char, args[2].char, inverted))

parse_optional_range(args) ==
    IF Len(args) # 3 THEN ParseErr
    ELSE IF args[2].char < args[1].char THEN ParseErr
    ELSE IF args[3].num < 0 THEN ParseErr
    ELSE Parsed(RangeOption(args[1].char, args[2].char, args[3].num))

parse_jump(args) ==
    IF Len(args) # 1 \/ args[1].num < 0 THEN ParseErr ELSE Parsed(Jump(args[1].num))

parse_split(args) ==
    IF Len(args) # 2 THEN ParseErr
    ELSE IF args[1].num < 0 \/ args[2].num < 0 THEN ParseErr
    ELSE Parsed(Split(args[1].num, args[2].num))

\* The lines parse_regex skips: nothing on the line, or a comment.
Skipped(line) == line.opcode \in {"", "#"}

\* `let instruction = match opcode { ... }`
ParseLine(line) ==
    CASE line.opcode = "match" -> parse_nullary(line.args, Match)
      [] line.opcode = "die" -> parse_nullary(line.args, Die)
      [] line.opcode = "consume" -> parse_nullary(line.args, Consume)
      [] line.opcode = "char" -> parse_char(line.args, FALSE)
      [] line.opcode = "invChar" -> parse_char(line.args, TRUE)
      [] line.opcode = "optChar" -> parse_optional_char(line.args)
      [] line.opcode = "range" -> parse_range(line.args, FALSE)
      [] line.opcode = "invRange" -> parse_range(line.args, TRUE)
      [] line.opcode = "optRange" -> parse_optional_range(line.args)
      [] line.opcode = "jump" -> parse_jump(line.args)
      [] line.opcode = "split" -> parse_split(line.args)
      [] OTHER -> ParseErr

(***************************************************************************)
(* regex/bin.rs: parse_instruction of one 4-byte chunk <<b1, b2, b3, b4>>, *)
(* b1 the most significant byte of the 32-bit word.                        *)
(***************************************************************************)
Opcode(w) == w[1] \div 32                        \* (combined & OPCODE_MASK) >> 29
Inverted(w) == (w[1] \div 16) % 2 = 1            \* combined & INVERTED_MASK
Dest(w) == (w[1] % 16) * 256 + w[2]              \* (combined & DEST_MASK) >> 16
Dest2(w) == w[3] * 16 + (w[4] \div 16)           \* (combined & DEST2_MASK) >> 4
CharMin(w) == w[3]                               \* (combined & CHAR_MIN_MASK) >> 8
CharMax(w) == w[4]                               \* (combined & CHAR_MAX_MASK) >> 0
SaveIndex(w) == w[2] % 64                        \* (combined & SAVE_INDEX_MASK) >> 16

parse_instruction(w) ==
    CASE Opcode(w) = 0 -> Parsed(Jump(Dest(w)))
      [] Opcode(w) = 1 -> Parsed(Split(Dest(w), Dest2(w)))
      [] Opcode(w) = 2 -> Parsed(Compare(CharMin(w), CharMax(w), Inverted(w)))
      [] Opcode(w) = 3 -> Parsed(Branch(CharMin(w), CharMax(w), Dest(w)))
      [] Opcode(w) = 4 -> Parsed(InstructionSave(SaveIndex(w)))
      [] Opcode(w) = 7 -> Parsed(Match)
      [] OTHER -> ParseErr

(***************************************************************************)
(* The files loaded.                                                       *)
(***************************************************************************)
\* The words `a`, `b`, ... and the numbers 0..MaxDest (as chars: the digits,
\* which come after the letters here).
Letters == {Word(c, -1) : c \in Chars}
Numbers == {Word(NumChars + 1 + n, n) : n \in 0..MaxDest}
LetterA == Word(1, -1)
LetterB == Word(NumChars, -1)

TextLines ==
    {Line("", <<>>), Line("#", <<>>), Line("nop", <<>>)}
    \cup {Line(o, a) : o \in {"match", "die", "consume"}, a \in {<<>>, <<LetterA>>}}
    \cup {Line(o, a) : o \in {"char", "invChar"}, a \in {<<>>, <<LetterA>>}}
    \cup {Line("optChar", a) : a \in {<<LetterA>>, <<LetterA, LetterA>>}
                                    \cup {<<LetterA, n>> : n \in Numbers}}
    \cup {Line(o, a) : o \in {"range", "invRange"},
                       a \in {<<LetterA>>, <<LetterA, LetterB>>, <<LetterB, LetterA>>}}
    \cup {Line("optRange", a) : a \in {<<LetterA, LetterB>>, <<LetterB, LetterA, Word(NumChars + 1, 0)>>}
                                     \cup {<<LetterA, LetterB, n>> : n \in Numbers}}
    \cup {Line("jump", a) : a \in {<<>>, <<LetterA>>} \cup {<<n>> : n \in Numbers}}
    \cup {Line("split", a) : a \in {<<Word(NumChars + 1, 0)>>, <<LetterA, Word(NumChars + 1, 0)>>}
                                  \cup {<<n, m>> : n \in Numbers, m \in Numbers}}

TextFiles == UNION {[1..n -> TextLines] : n \in 0..MaxLines}

\* First bytes: every opcode (0b101 is not one), compare also inverted.
FirstBytes == {0, 32, 64, 80, 96, 128, 160, 224}
Chunks ==
    {<<b1, b2, lo[1], lo[2]>> : b1 \in FirstBytes, b2 \in 0..MaxDest,
                                lo \in {<<0, 0>>, <<0, 16>>, <<1, 2>>}}

BinFiles == UNION {[1..n -> Chunks] : n \in 0..MaxWords}

(***************************************************************************)
(* The loaders, one line or chunk at a time.                               *)
(***************************************************************************)
LoadInit ==
    /\ ExecOff
    /\ BitsOff
    /\ CapOff
    /\ \/ loader = "regex" /\ file \in TextFiles /\ file_tail = 0
       \/ loader = "bin" /\ file \in BinFiles /\ file_tail \in 0..1
    /\ line_number = 0
    /\ loaded = <<>>
    /\ load_status = "loading"

Loading(which) ==
    /\ loader = which
    /\ load_status = "loading"
    /\ UNCHANGED <<loader, file, file_tail, execVars, bitsVars, capVars>>

\* parse_regex: a line that is skipped (`continue`).
RegexSkip ==
    /\ Loading("regex")
    /\ line_number < Len(file)
    /\ Skipped(file[line_number + 1])
    /\ line_number' = line_number + 1
    /\ UNCHANGED <<loaded, load_status>>

\* parse_regex: a line that is parsed; Ok is pushed, Err is returned.
RegexLine ==
    /\ Loading("regex")
    /\ line_number < Len(file)
    /\ ~Skipped(file[line_number + 1])
    /\ LET r == ParseLine(file[line_number + 1])
       IN  IF r.kind = "ok"
           THEN /\ loaded' = Append(loaded, r.inst)
                /\ line_number' = line_number + 1
                /\ UNCHANGED load_status
           ELSE /\ load_status' = r.kind
                /\ UNCHANGED <<loaded, line_number>>

\* parse_regex, after the loop: the program must end with a `match`.
RegexEnd ==
    /\ Loading("regex")
    /\ line_number = Len(file)
    /\ load_status' = IF loaded # <<>> /\ loaded[Len(loaded)] = Match THEN "ok" ELSE "err"
    /\ UNCHANGED <<loaded, line_number>>

\* parse_bin: one chunk of chunks_exact(4); Ok is pushed, Err is returned.
BinChunk ==
    /\ Loading("bin")
    /\ line_number < Len(file)
    /\ LET r == parse_instruction(file[line_number + 1])
       IN  IF r.kind = "ok"
           THEN /\ loaded' = Append(loaded, r.inst)
                /\ line_number' = line_number + 1
                /\ UNCHANGED load_status
           ELSE /\ load_status' = r.kind
                /\ UNCHANGED <<loaded, line_number>>

\* parse_bin, after the loop: Ok(instructions); the bytes after the last whole
\* chunk are not looked at.
BinEnd ==
    /\ Loading("bin")
    /\ line_number = Len(file)
    /\ load_status' = "ok"
    /\ UNCHANGED <<loaded, line_number>>

LoadNext ==
    \/ RegexSkip
    \/ RegexLine
    \/ RegexEnd
    \/ BinChunk
    \/ BinEnd

LoadSpec == LoadInit /\ [][LoadNext]_vars

(***************************************************************************)
(* interpreter/thread.rs: ThreadData, ThreadList, ThreadGroup.  A capture  *)
(* vector is its match_indices; a LinkedList<ThreadData> is a sequence of  *)
(* them; an Option<LinkedList> slot is [some, data].                       *)
(***************************************************************************)
\* ThreadData::new
ThreadDataNew == <<0, 0>>

NoneSlot == [some |-> FALSE, data |-> <<>>]
SomeSlot(data) == [some |-> TRUE, data |-> data]

\* ThreadList::new
GroupListNew(capacity) == [k \in 1..capacity |-> NoneSlot]

\* ThreadList::add_thread: the incoming list is appended to the one at pc;
\* `panic` is the index-out-of-bounds of self.threads[pc].
GroupAddThread(list, pc, thread_data) ==
    IF pc >= Len(list)
    THEN [panic |-> TRUE, list |-> list]
    ELSE [panic |-> FALSE,
          list |-> [list EXCEPT ![pc + 1] =
                        IF @.some THEN SomeSlot(@.data \o thread_data.data)
                        ELSE SomeSlot(<<>> \o thread_data.data)]]

\* ThreadList::clear
GroupClear(list) == [k \in 1..Len(list) |-> NoneSlot]

\* ThreadList::is_empty
GroupIsEmpty(list) == \A k \in 1..Len(list) : ~list[k].some

\* ThreadListIterMut::next from enumerate position pos: skips the None slots and
\* takes the list out of the first Some slot, leaving an empty list in it.
RECURSIVE IterMutNext(_, _)
IterMutNext(list, pos) ==
    IF pos >= Len(list)
    THEN [kind |-> "none", pos |-> pos, list |-> list, group |-> [pc |-> 0, data |-> <<>>]]
    ELSE IF ~list[pos + 1].some
    THEN IterMutNext(list, pos + 1)
    ELSE [kind |-> "some", pos |-> pos + 1,
          list |-> [list EXCEPT ![pos + 1] = SomeSlot(<<>>)],
          group |-> [pc |-> pos, data |-> list[pos + 1].data]]

\* ThreadGroup::new
ThreadGroupNew(pc) == [pc |-> pc, data |-> <<ThreadDataNew>>]

\* A save that writes the first capture vector of the bag only.
SaveHead(group, match_index, at_index) ==
    IF \E k \in 1..Len(group.data) : match_index >= Len(group.data[k])
    THEN [panic |-> TRUE, group |-> group]
    ELSE [panic |-> FALSE,
          group |-> [group EXCEPT !.data =
                        [k \in 1..Len(@) |-> IF k = 1 THEN [@[k] EXCEPT ![match_index + 1] = at_index]
                                             ELSE @[k]]]]

\* ThreadGroup::save; `panic` is the index-out-of-bounds of match_indices.
Save(group, match_index, at_index) ==
    IF \E k \in 1..Len(group.data) : match_index >= Len(group.data[k])
    THEN [panic |-> TRUE, group |-> group]
    ELSE [panic |-> FALSE,
          group |-> [group EXCEPT !.data =
                        [k \in 1..Len(@) |-> [@[k] EXCEPT ![match_index + 1] = at_index]]]]

\* ThreadGroup::get_match_data
GetMatchData(group, match_index) ==
    [k \in 1..Len(group.data) |->
        <<group.data[k][match_index * 2 + 1], group.data[k][match_index * 2 + 2]>>]

\* #[derive(Clone)] on ThreadGroup
Clone(group) == [pc |-> group.pc, data |-> group.data]

(***************************************************************************)
(* The capture-carrying ThreadList and the groups of its caller, call by   *)
(* call.  The drain iterator borrows the list mutably, so add_thread,      *)
(* clear and is_empty wait until it is dropped.                            *)
(***************************************************************************)
\* One more call, while the caller has calls left.
Called ==
    /\ cap_status = "ok"
    /\ calls < MaxCalls
    /\ calls' = calls + 1

RemoveAt(q, k) == [j \in 1..(Len(q) - 1) |-> IF j < k THEN q[j] ELSE q[j + 1]]

CapInit ==
    /\ ExecOff
    /\ BitsOff
    /\ LoadOff
    /\ \E capacity \in 1..MaxCapacity : threads = GroupListNew(capacity)
    /\ groups = <<>>
    /\ stores = <<>>
    /\ clone_of = <<>>
    /\ drain = -1
    /\ drained = FALSE
    /\ calls = 0
    /\ cap_status = "ok"

\* The slots parse_save reads out of the chunks of a program file.
SaveSlots == {SaveIndex(w) : w \in {c \in Chunks : Opcode(c) = 4}}

\* A new allocation: one that no group held lives in.
FreshStore == CHOOSE n \in 0..Len(stores) : n \notin SeqSet(stores)

\* Allocations have no order: they are numbered as the groups held name them,
\* first come first.
StoreNumber(ss, id) ==
    LET at == CHOOSE h \in 1..Len(ss) : ss[h] = id /\ \A k \in 1..(h - 1) : ss[k] # id
    IN  Cardinality({ss[k] : k \in 1..(at - 1)})
Renumbered(ss, q) ==
    [h \in 1..Len(q) |-> IF q[h] \in SeqSet(ss) THEN StoreNumber(ss, q[h]) ELSE -1]

\* A cloned list that stayed in its original's allocation.
SameStore(store, fresh) == store

\* #[derive(Clone)]: LinkedList::clone and Vec::clone copy into a new allocation.
CloneStore(store, fresh) == fresh

\* The caller holds one more group.
Held(group, store, origin) ==
    /\ groups' = Append(groups, group)
    /\ stores' = Renumbered(Append(stores, store), Append(stores, store))
    /\ clone_of' = Renumbered(Append(stores, store), Append(clone_of, origin))

\* Group g leaves the caller's hands; `left` is what its allocation holds then.
Released(g, left) ==
    /\ groups' = RemoveAt([h \in 1..Len(groups) |->
                              IF stores[h] = stores[g] THEN [groups[h] EXCEPT !.data = left]
                              ELSE groups[h]], g)
    /\ stores' = Renumbered(RemoveAt(stores, g), RemoveAt(stores, g))
    /\ clone_of' = Renumbered(RemoveAt(stores, g), RemoveAt(clone_of, g))

\* ThreadGroup::new(pc)
CapGroupNew ==
    /\ Called
    /\ Len(groups) < MaxGroups
    /\ \E pc \in 0..(Len(threads) - 1) : Held(ThreadGroupNew(pc), FreshStore, -1)
    /\ UNCHANGED <<threads, drain, drained, cap_status, execVars, bitsVars, loadVars>>

\* group.save(match_index, at_index): the write lands in the group's allocation.
CapSave ==
    /\ Called
    /\ \E g \in 1..Len(groups), match_index \in SaveSlots, at_index \in 0..MaxIndex :
        LET r == Save(groups[g], match_index, at_index)
        IN  IF r.panic
            THEN cap_status' = "panic" /\ UNCHANGED groups
            ELSE /\ groups' = [h \in 1..Len(groups) |->
                                  IF h = g THEN r.group
                                  ELSE IF stores[h] = stores[g]
                                  THEN [groups[h] EXCEPT !.data = r.group.data]
                                  ELSE groups[h]]
                 /\ UNCHANGED cap_status
    /\ UNCHANGED <<threads, stores, clone_of, drain, drained, execVars, bitsVars, loadVars>>

\* group.clone()
CapClone ==
    /\ Called
    /\ Len(groups) < MaxGroups
    /\ \E g \in 1..Len(groups) :
        Held(Clone(groups[g]), CloneStore(stores[g], FreshStore), stores[g])
    /\ UNCHANGED <<threads, drain, drained, cap_status, execVars, bitsVars, loadVars>>

\* The caller drops a group.
CapGroupDrop ==
    /\ Called
    /\ \E g \in 1..Len(groups) : Released(g, groups[g].data)
    /\ UNCHANGED <<threads, drain, drained, cap_status, execVars, bitsVars, loadVars>>

\* list.add_thread(pc, group): the group is moved into the call, and append
\* moves the vectors out of the group's list.
CapAdd ==
    /\ Called
    /\ drain = -1
    /\ \E g \in 1..Len(groups), pc \in 0..Len(threads) :
        LET r == GroupAddThread(threads, pc, groups[g])
        IN  /\ pc < Len(threads) => Len(threads[pc + 1].data) + Len(groups[g].data) <= MaxBag
            /\ IF r.panic
               THEN /\ Released(g, groups[g].data)
                    /\ cap_status' = "panic"
                    /\ UNCHANGED <<threads, drained>>
               ELSE /\ Released(g, <<>>)
                    /\ threads' = r.list
                    /\ drained' = FALSE
                    /\ UNCHANGED cap_status
    /\ UNCHANGED <<drain, execVars, bitsVars, loadVars>>

\* list.clear()
CapClear ==
    /\ Called
    /\ drain = -1
    /\ ~GroupIsEmpty(threads)
    /\ threads' = GroupClear(threads)
    /\ drained' = FALSE
    /\ UNCHANGED <<groups, stores, clone_of, drain, cap_status, execVars, bitsVars, loadVars>>

\* list.iter_mut(): borrows the list; nothing is read or written yet.
CapIterMut ==
    /\ cap_status = "ok"
    /\ drain = -1
    /\ drain' = 0
    /\ UNCHANGED <<threads, groups, stores, clone_of, drained, calls, cap_status,
                   execVars, bitsVars, loadVars>>

\* ThreadListIterMut::next(): a yielded group goes to the caller, who keeps it
\* if it has room and drops it otherwise.
CapNext ==
    /\ Called
    /\ drain # -1
    /\ LET it == IterMutNext(threads, drain)
       IN  /\ threads' = it.list
           /\ drain' = it.pos
           /\ IF it.kind = "some"
              THEN /\ IF Len(groups) < MaxGroups THEN Held(it.group, FreshStore, -1)
                      ELSE UNCHANGED <<groups, stores, clone_of>>
                   /\ UNCHANGED drained
              ELSE /\ drained' = TRUE
                   /\ UNCHANGED <<groups, stores, clone_of>>
    /\ UNCHANGED <<cap_status, execVars, bitsVars, loadVars>>

\* The drain iterator is dropped.
CapIterDrop ==
    /\ Called
    /\ drain # -1
    /\ drain' = -1
    /\ UNCHANGED <<threads, groups, stores, clone_of, drained, cap_status,
                   execVars, bitsVars, loadVars>>

CapStep ==
    \/ CapGroupNew
    \/ CapSave
    \/ CapClone
    \/ CapGroupDrop
    \/ CapAdd
    \/ CapClear
    \/ CapIterMut
    \/ CapNext
    \/ CapIterDrop

CapSpec == CapInit /\ [][CapStep]_vars

(***************************************************************************)
(* The capturing search that main.rs calls (search returns Some((start,    *)
(* end)) or None).  Its step and its driver are taken from the execution-  *)
(* step and driver sections of the design; the lists and groups they work  *)
(* on are the ThreadList and ThreadGroup of interpreter/thread.rs.         *)
(***************************************************************************)
\* The slots of the overall match: start and end.
MatchSlots == {0, 1}

\* The instructions of a capturing program whose destinations lie in 0..n-1.
CaptureInstructions(n) ==
    {Match, Die, Consume}
    \cup {InstructionSave(k) : k \in MatchSlots}
    \cup {Compare(r[1], r[2], i) : r \in OrderedPairs, i \in BOOLEAN}
    \cup {Branch(r[1], r[2], d) : r \in OrderedPairs, d \in 0..(n - 1)}
    \cup {Jump(d) : d \in 0..(n - 1)}
    \cup {Split(d1, d2) : d1 \in 0..(n - 1), d2 \in 0..(n - 1)}

\* a, with both ends saved.
SavedA == <<InstructionSave(0), Compare(1, 1, FALSE), InstructionSave(1), Match>>
\* a*, with both ends saved.
SavedAStar ==
    <<InstructionSave(0), Split(2, 4), Compare(1, 1, FALSE), Jump(1), InstructionSave(1), Match>>
\* any symbol but a, with both ends saved.
SavedNotA == <<InstructionSave(0), Compare(1, 1, TRUE), InstructionSave(1), Match>>
\* ab, with both ends saved.
SavedAB ==
    <<InstructionSave(0), Compare(1, 1, FALSE), Compare(2, 2, FALSE), InstructionSave(1), Match>>
\* a, with the end saved on one branch of a split only.
HalfSaved ==
    <<InstructionSave(0), Compare(1, 1, FALSE), Split(3, 4), InstructionSave(1), Match>>

\* The valid programs searched with captures.
CapturePrograms ==
    UNION {{p \in [1..n -> CaptureInstructions(n)] : p[n] = Match} : n \in 1..MaxProgLen}
    \cup {SavedA, SavedAStar, SavedNotA, SavedAB, HalfSaved}

\* What dispatching `inst` on a drained group does at input index `index`:
\* the records it extracts and the (pc, group) pairs it adds to temp and next.
CaptureEffect(inst, group, symbol, index) ==
    LET pc == group.pc
        nothing == [panic |-> FALSE, matches |-> <<>>, temp |-> <<>>, next |-> <<>>]
        in_range == inst.lo <= symbol /\ symbol <= inst.hi
        saved == Save(group, inst.lo, index)
    IN  CASE inst.op = "Match" -> [nothing EXCEPT !.matches = GetMatchData(group, 0)]
          [] inst.op = "Consume" ->
                IF symbol # None THEN [nothing EXCEPT !.next = <<<<pc + 1, group>>>>]
                ELSE nothing
          [] inst.op = "Compare" ->
                IF symbol # None /\ (in_range # inst.inverted)
                THEN [nothing EXCEPT !.next = <<<<pc + 1, group>>>>]
                ELSE nothing
          [] inst.op = "Branch" ->
                IF symbol = None THEN nothing
                ELSE IF in_range THEN [nothing EXCEPT !.temp = <<<<inst.pc1, group>>>>]
                ELSE [nothing EXCEPT !.temp = <<<<pc + 1, group>>>>]
          [] inst.op = "Jump" -> [nothing EXCEPT !.temp = <<<<inst.pc1, group>>>>]
          [] inst.op = "Split" ->
                [nothing EXCEPT !.temp = <<<<inst.pc1, Clone(group)>>, <<inst.pc2, group>>>>]
          [] inst.op = "Save" ->
                IF saved.panic THEN [nothing EXCEPT !.panic = TRUE]
                ELSE [nothing EXCEPT !.temp = <<<<pc + 1, saved.group>>>>]
          [] OTHER -> nothing

\* add_thread for each (pc, group) pair, in order.
RECURSIVE AddGroups(_, _)
AddGroups(list, adds) ==
    IF adds = <<>>
    THEN [panic |-> FALSE, list |-> list]
    ELSE LET r == GroupAddThread(list, Head(adds)[1], Head(adds)[2])
         IN  IF r.panic THEN r ELSE AddGroups(r.list, Tail(adds))

\* end - start of a match record.
MatchLength(m) == m[2] - m[1]

\* Match selection: the longest candidate, the earliest of the longest ones.
Longest(ms) ==
    IF ms = <<>>
    THEN [some |-> FALSE, start |-> 0, end |-> 0]
    ELSE LET k == CHOOSE k \in 1..Len(ms) :
                    /\ \A j \in 1..Len(ms) : MatchLength(ms[j]) <= MatchLength(ms[k])
                    /\ \A j \in 1..(k - 1) : MatchLength(ms[j]) < MatchLength(ms[k])
         IN  [some |-> TRUE, start |-> ms[k][1], end |-> ms[k][2]]

\* search(program, input): `current` is created with capacity |program|.
CaptureInit ==
    /\ BitsOff
    /\ CapOff
    /\ LoadOff
    /\ program \in CapturePrograms
    /\ input \in Inputs
    /\ current_threads = GroupListNew(Len(program))
    /\ temp_threads = <<>>
    /\ next_threads = <<>>
    /\ phase = "run"
    /\ char_index = 0
    /\ input_char = None
    /\ iter_index = 0
    /\ result = "pending"
    /\ searches = 0
    /\ others = 0
    /\ first = NoSearch
    /\ trace = <<>>
    /\ sweeps = 0
    /\ visited = {}
    /\ matches = <<>>

\* What no step of the capturing search touches.
CaptureFrame ==
    UNCHANGED <<program, input, searches, others, first, trace, visited,
                bitsVars, capVars, loadVars>>

CapturePanicked ==
    /\ phase' = "panic"
    /\ result' = "panic"
    /\ UNCHANGED <<current_threads, temp_threads, next_threads, iter_index, matches>>

\* A step begins at char_index, on its symbol or, after the last one, on None:
\* a fresh group is seeded at PC 0 (a lone Match on the empty input gives
\* (0, 0), so the step at the end of the input is seeded too), and the scratch
\* lists temp and next are initialised.
CaptureStepBegin ==
    /\ phase = "run"
    /\ LET seeded == GroupAddThread(current_threads, 0, ThreadGroupNew(0))
       IN  /\ input_char' = IF char_index < Len(input) THEN input[char_index + 1] ELSE None
           /\ IF seeded.panic
              THEN CapturePanicked
              ELSE /\ current_threads' = seeded.list
                   /\ temp_threads' = GroupListNew(Len(program))
                   /\ next_threads' = GroupListNew(Len(program))
                   /\ iter_index' = 0
                   /\ phase' = "for"
                   /\ UNCHANGED <<result, matches>>
    /\ sweeps' = 0
    /\ UNCHANGED char_index
    /\ CaptureFrame

\* One (pc, group) drained from current is dispatched on program[pc].
CaptureDispatch ==
    /\ phase = "for"
    /\ LET it == IterMutNext(current_threads, iter_index)
           eff == CaptureEffect(program[it.group.pc + 1], it.group, input_char, char_index)
           t == AddGroups(temp_threads, eff.temp)
           n == AddGroups(next_threads, eff.next)
       IN  /\ it.kind = "some"
           /\ IF eff.panic \/ t.panic \/ n.panic
              THEN CapturePanicked
              ELSE /\ current_threads' = it.list
                   /\ iter_index' = it.pos
                   /\ temp_threads' = t.list
                   /\ next_threads' = n.list
                   /\ matches' = matches \o eff.matches
                   /\ UNCHANGED <<phase, result>>
    /\ UNCHANGED <<char_index, input_char, sweeps>>
    /\ CaptureFrame

\* The drain has run to its end: clear current and swap it with temp.
CaptureSweepEnd ==
    /\ phase = "for"
    /\ IterMutNext(current_threads, iter_index).kind = "none"
    /\ current_threads' = temp_threads
    /\ temp_threads' = GroupClear(current_threads)
    /\ phase' = "while"
    /\ UNCHANGED <<char_index, input_char, next_threads, iter_index, result, matches, sweeps>>
    /\ CaptureFrame

\* current is not empty yet: drain it again, while the loop has turns left.
CaptureLoop ==
    /\ phase = "while"
    /\ ~GroupIsEmpty(current_threads)
    /\ sweeps < MaxSweeps
    /\ sweeps' = sweeps + 1
    /\ iter_index' = 0
    /\ phase' = "for"
    /\ UNCHANGED <<char_index, input_char, current_threads, temp_threads, next_threads,
                   result, matches>>
    /\ CaptureFrame

\* current is empty: clear it, swap it with next and return the matches; the
\* driver goes on to the next index, or to match selection after the step on
\* None.
CaptureStepEnd ==
    /\ phase = "while"
    /\ GroupIsEmpty(current_threads)
    /\ current_threads' = next_threads
    /\ temp_threads' = <<>>
    /\ next_threads' = <<>>
    /\ IF input_char = None
       THEN phase' = "select" /\ UNCHANGED char_index
       ELSE phase' = "run" /\ char_index' = char_index + 1
    /\ UNCHANGED <<input_char, iter_index, result, matches, sweeps>>
    /\ CaptureFrame

\* Match selection over all the matches of the steps.
CaptureSelect ==
    /\ phase = "select"
    /\ result' = Longest(matches)
    /\ phase' = "done"
    /\ UNCHANGED <<char_index, input_char, current_threads, temp_threads, next_threads,
                   iter_index, matches, sweeps>>
    /\ CaptureFrame

CaptureNext ==
    \/ CaptureStepBegin
    \/ CaptureDispatch
    \/ CaptureSweepEnd
    \/ CaptureLoop
    \/ CaptureStepEnd
    \/ CaptureSelect

CaptureSpec == CaptureInit /\ [][CaptureNext]_vars

(***************************************************************************)
(* Claims                                                                  *)
(***************************************************************************)

\* C1: for every valid program and input, search terminates: the run reaches
\* its end (a result, or the panic that C2 is about) after finitely many steps.
C1_Terminates == <>(phase \in {"done", "panic"})

\* C2: under a valid program of any length and any input no operation of
\* search fails: no index into ThreadList.threads or program is out of bounds.
C2_NoPanic == phase # "panic"

\* C3: on the empty input, a program that accepts the empty string (Match
\* reachable from PC 0 by epsilon transitions alone) makes search report a match.
C3_EmptyInputMatches ==
    (phase = "done" /\ input = <<>> /\ AcceptsEmpty(program)) => result = "match"

\* C4: search returns the longest of all match candidates of the run and does
\* not stop at the first Match reached: the match it returns ends at the step
\* position where it returned, so that position is at least the greatest
\* candidate length.
C4_ReturnsLongest ==
    (phase = "done" /\ result = "match") =>
        \A se \in Candidates(program, input) : se[2] - se[1] <= StepPosition

\* C5: whenever some substring of the input starting at an index i is matched
\* by the program, search returns a match (one whose start is at most i).
C5_MatchWhenSubstringMatches ==
    (phase = "done" /\ \E i \in 0..Len(input) : MatchesFrom(program, input, i))
        => result = "match"

\* C6: prepending characters never loses a match: if search reports a match on
\* a suffix of the input, the search on the whole input ends with a match too
\* (short of the panic that C2 is about).
C6_PrependKeepsMatch ==
    (\E k \in 1..Len(input) :
        Search(program, SubSeq(input, k + 1, Len(input))) = "match")
    => <>(phase = "panic" \/ (phase = "done" /\ result = "match"))

\* C7: on the empty input, a program in which every path from PC 0 to a Match
\* passes through an input-consuming instruction gets no match.
C7_EmptyInputNoMatch ==
    (phase = "done" /\ input = <<>> /\ EveryPathConsumes(program)) => result = "nomatch"

C7_Witness ==
    /\ phase = "done"
    /\ input = <<>>
    /\ program = <<Consume, Match>>
    /\ EveryPathConsumes(program)
    /\ result = "nomatch"

\* C8: add_thread with a PC at or beyond the capacity is a silent no-op: it
\* does not fail, and the list never holds a PC outside [0, capacity).
C8_OutOfRangeDropped ==
    /\ bits_status # "panic"
    /\ Members(bits) \subseteq 0..(bits.size - 1)

\* C9: draining the capture-carrying thread list empties it: once the drain
\* iterator has run to its end, no PC has a group and is_empty() is true.
C9_DrainEmpties == drained => GroupIsEmpty(threads)

\* How often v occurs in the bag q.
Count(q, v) == Cardinality({k \in DOMAIN q : q[k] = v})

\* C10: add_thread on a PC that already holds a group merges the bags with
\* duplicate collapse: the bag at pc then holds the vectors of both bags, and
\* a vector that was already present occurs no more often than before.
C10_AddMergesWithoutDuplicates ==
    [][CapAdd =>
        \A pc \in 0..(Len(threads) - 1) :
            (threads[pc + 1].some /\ threads'[pc + 1] # threads[pc + 1]) =>
                \E g \in 1..Len(groups) :
                    LET old == threads[pc + 1].data
                        incoming == groups[g].data
                        merged == threads'[pc + 1].data
                    IN  /\ groups' = RemoveAt(groups, g)
                        /\ SeqSet(merged) = SeqSet(old) \cup SeqSet(incoming)
                        /\ \A v \in SeqSet(old) : Count(merged, v) = Count(old, v)]_vars

\* C11: search is deterministic and keeps no state between calls: a later call
\* on the first call's program and input, whatever was searched in between,
\* steps through the same thread-list states and returns the same result.
C11_Deterministic ==
    (searches > 1 /\ program = first.program /\ input = first.input) =>
        /\ Len(trace) <= Len(first.trace)
        /\ \A k \in 1..Len(trace) : trace[k] = first.trace[k]
        /\ phase = "done" => (result = first.result /\ Len(trace) = Len(first.trace))

\* The third call repeats the first after a call on other arguments, and the
\* executor of the call before returned with threads still in its list.
C11_Witness ==
    /\ searches = 3
    /\ others = 1
    /\ <<first.program, first.input>> \notin OtherSearches
    /\ program = first.program
    /\ input = first.input
    /\ phase = "done"
    /\ result = "match"
    /\ Len(trace) > 3
    /\ ~IsEmpty(current_threads)

\* C12: a loader that returns a program has rejected every destination that is
\* not inside the program: all Jump, Split, option and branch destinations of
\* the returned instruction vector are below its length.
C12_LoaderRejectsOutOfRange ==
    load_status = "ok" =>
        \A k \in 1..Len(loaded) : \A d \in Destinations(loaded[k]) : d < Len(loaded)

\* C13: in every execution step the inner epsilon loop (dispatch all of
\* current, clear current, swap current with temp) runs at most |p| times.
C13_LoopBound == sweeps <= Len(program)

\* The instruction a dispatch is about, and whether the input symbol is one
\* its range holds.
DispatchedInst == program[Dispatched.pc + 1]
InRange(inst, c) == inst.lo <= c /\ c <= inst.hi

\* C14: Range consumes in both polarities: dispatched with an input symbol s
\* and (lo <= s <= hi) XOR inverted, it adds pc+1 to next and nothing to temp;
\* otherwise it adds nothing.
C14_RangeConsumes ==
    [][(ThreadDispatch /\ Dispatched.pc < Len(program) /\ DispatchedInst.op = "Range") =>
        IF input_char # None /\ (InRange(DispatchedInst, input_char) # DispatchedInst.inverted)
        THEN /\ temp_threads' = temp_threads
             /\ Members(next_threads') = Members(next_threads) \cup {Dispatched.pc + 1}
        ELSE /\ temp_threads' = temp_threads
             /\ next_threads' = next_threads]_vars

\* C15: RangeBranch (RangeOption in the code) does not consume: dispatched with
\* an input symbol s it adds dest to temp if lo <= s <= hi and pc+1 to temp
\* otherwise, and nothing to next; with no input symbol it adds nothing.
C15_RangeBranchDoesNotConsume ==
    [][(ThreadDispatch /\ Dispatched.pc < Len(program) /\ DispatchedInst.op = "RangeOption") =>
        /\ next_threads' = next_threads
        /\ IF input_char = None
           THEN temp_threads' = temp_threads
           ELSE Members(temp_threads') = Members(temp_threads) \cup
                    {IF InRange(DispatchedInst, input_char) THEN DispatchedInst.pc1
                     ELSE Dispatched.pc + 1}]_vars

\* C16: within one execution step the instruction at a PC is dispatched at
\* most once, over all turns of the inner loop.
C16_DispatchedOnce == [][ThreadDispatch => Dispatched.pc \notin visited]_vars

\* C17: no thread survives the final step: the step with no input symbol adds
\* nothing to next, and when search has returned, with or without a match, the
\* executor's current list is empty.
C17_NoThreadSurvives ==
    /\ (phase \in {"while", "for"} /\ input_char = None) => IsEmpty(next_threads)
    /\ phase = "done" => IsEmpty(current_threads)

\* C18: save(slot, index) sets slot `slot` to `index` in every capture vector
\* of the group's bag and changes nothing else: the other slots of every
\* vector, the number of vectors, the group's pc and the thread list stay.
C18_SaveFrame ==
    [][(cap_status' = "ok" /\ drain' = drain /\ CapSave) =>
        /\ threads' = threads
        /\ Len(groups') = Len(groups)
        /\ \E g \in 1..Len(groups), slot \in SaveSlots, index \in 0..MaxIndex :
            /\ groups'[g].pc = groups[g].pc
            /\ Len(groups'[g].data) = Len(groups[g].data)
            /\ \A k \in 1..Len(groups[g].data) :
                /\ Len(groups'[g].data[k]) = Len(groups[g].data[k])
                /\ slot < Len(groups[g].data[k])
                /\ \A j \in 1..Len(groups[g].data[k]) :
                    groups'[g].data[k][j] = IF j = slot + 1 THEN index
                                            ELSE groups[g].data[k][j]]_vars

\* A group whose bag of two vectors was written by one save.
C18_Witness ==
    \E g \in 1..Len(groups) :
        /\ Len(groups[g].data) = 2
        /\ groups[g].data[1] = <<0, 1>>
        /\ groups[g].data[2] = <<0, 1>>

\* C19: a clone is an independent deep copy: it starts with the pc and the
\* capture vectors of its original, and a save on one group, or adding one
\* group to a thread list, leaves every other group the caller holds as it was.
C19_CloneIndependent ==
    [][/\ (Len(groups') > Len(groups) /\ CapClone) =>
            \E g \in 1..Len(groups) : groups' = Append(groups, groups[g])
       /\ (Len(groups') = Len(groups) /\ CapSave) =>
            \E g \in 1..Len(groups) : \A h \in 1..Len(groups) \ {g} : groups'[h] = groups[h]
       /\ (Len(groups') < Len(groups) /\ CapAdd) =>
            \E g \in 1..Len(groups) : groups' = RemoveAt(groups, g)]_vars

\* A clone and its original, both held, that a save on one of them has made
\* differ.
C19_Witness ==
    \E g, h \in 1..Len(groups) :
        /\ clone_of[h] = stores[g]
        /\ groups[h].pc = groups[g].pc
        /\ groups[h].data # groups[g].data

\* C20: all capture vectors of a group have one length, and it covers every
\* slot a Save of the program names: no save writes outside a vector.
C20_VectorsCoverSaveSlots ==
    [][/\ \A g \in 1..Len(groups') : \A k, j \in 1..Len(groups'[g].data) :
            Len(groups'[g].data[k]) = Len(groups'[g].data[j])
       /\ CapSave => cap_status' = "ok"]_vars

\* C21: every match record extracted from a thread group at a Match
\* instruction, and every match search returns, is a pair (start, end) with
\* 0 <= start <= end <= |input|, whatever Saves the program's paths run or skip.
C21_MatchRecordInBounds ==
    /\ \A k \in 1..Len(matches) :
        /\ 0 <= matches[k][1]
        /\ matches[k][1] <= matches[k][2]
        /\ matches[k][2] <= Len(input)
    /\ (phase = "done" /\ result.some) =>
        /\ 0 <= result.start
        /\ result.start <= result.end
        /\ result.end <= Len(input)

\* C22: whatever the capacity, after add_thread calls with PCs below the
\* capacity since the last clear, the iterator yields exactly the PCs added,
\* each once, in strictly ascending order, and then ends; also when a PC is the
\* last bit of a word or the PCs lie in different words.
C22_IterYieldsAdded ==
    (bits_iter # -1 /\ bits_added \subseteq 0..(bits.size - 1)) =>
        /\ bits_status # "panic"
        /\ \A j, k \in 1..Len(bits_out) : j < k => bits_out[j] < bits_out[k]
        /\ SeqSet(bits_out) \subseteq bits_added
        /\ bits_status = "ended" => SeqSet(bits_out) = bits_added

====
